---------------------------- MODULE Spec2Model ----------------------------
(***************************************************************************)
(* RMP_ConvectionVelocityCalculator (compute_RMP_ConvectionVelocity.py):   *)
(* the calculator object, its two estimators and the time-domain plot.     *)
(*                                                                         *)
(* Arithmetic.  The program works on floating-point arrays; the model      *)
(* works on integer samples and keeps every quantity exact:                *)
(*   - a real that is a quotient is kept as a pair <<num, den>>;           *)
(*   - a complex number is kept as a pair <<re, im>>;                      *)
(*   - x - mean(x) is kept multiplied by len(x) (Fluctuation), the Hann    *)
(*     window multiplied by 4 (Hann).  Those positive factors, the Welch   *)
(*     scale 1/(fs*sum(win^2)), the one-sided factor 2 and the 1/K of the  *)
(*     segment average are common to Pxy, Pxx and Pyy of one bin: they     *)
(*     cancel in gamma2, leave angle(Pxy) alone, and multiply every Rxy    *)
(*     by the same positive number, so no comparison the code makes        *)
(*     (val >= 0.1, max, ==) is changed by them.                           *)
(*   - the least-squares line of np.polyfit over transcendental phases is  *)
(*     kept as the data it is fitted to (P = [x, Pxy]); only whether       *)
(*     polyfit returns or raises is computed.                              *)
(* Python indices are 0-based and kept as such in every stored index; a    *)
(* Python array a is the sequence with a[i] at position i+1.               *)
(***************************************************************************)
EXTENDS Integers, Sequences, FiniteSets, TLC

\* RMP_data_1 .. fs : the five fields of the calculator;
\* ctor             : the arguments the constructor was called with;
\* ret              : the outcome of the last compute_* call: what it returned
\*                    (Ucv, result_plot) or the exception it raised, with the
\*                    call's arguments and, for compute_timedomain, the local
\*                    lagDiff the velocity was computed from;
\* figure           : what the last plot_timedomain call drew.
VARIABLES RMP_data_1, RMP_data_2, RMP_x1, RMP_x2, fs, ctor, ret, figure

fields == <<RMP_data_1, RMP_data_2, RMP_x1, RMP_x2, fs>>
vars == <<RMP_data_1, RMP_data_2, RMP_x1, RMP_x2, fs, ctor, ret, figure>>

\* Longest signal handed to the constructor: under Spec, and under SpecFreq
\* (long enough for two Welch segments of the longest window).
MaxLen == 3
MaxLenFreq == 6

\* Sample values, sensor positions and sampling rates of the inputs.
Samples == {0, 1}
Positions == {0, 1}
Rates == {1, 2}

\* Window lengths handed to compute_freqdomain: the lengths whose DFT has
\* Gaussian-integer twiddle factors.
WindowLengths == {2, 4}

\* Overlaps handed to compute_freqdomain with a window of n samples: none,
\* half a window (the driver's window // 2) and a whole window.
Overlaps(n) == {0, n \div 2, n}

Signals(n) == [1..n -> Samples]

----------------------------------------------------------------------------
(* Numeric helpers                                                         *)

Abs(v) == IF v < 0 THEN -v ELSE v

RECURSIVE SumTo(_, _)
SumTo(s, n) == IF n = 0 THEN 0 ELSE s[n] + SumTo(s, n - 1)

\* sum(s)
Sum(s) == SumTo(s, Len(s))

\* A function over 1..n as the sequence of its values (an array in memory).
Array(s) == SubSeq(s, 1, Len(s))

\* x - np.mean(x), times len(x)
Fluctuation(x) ==
    LET total == Sum(x)
    IN  Array([i \in 1..Len(x) |-> Len(x) * x[i] - total])

----------------------------------------------------------------------------
(* Time domain                                                             *)

\* signal.correlation_lags(n, m): arange(-(m - 1), n)
CorrelationLagsShifted(n, m) == Array([k \in 1..(n + m - 1) |-> (k - 1) - m])
CorrelationLags(n, m) == Array([k \in 1..(n + m - 1) |-> (k - 1) - (m - 1)])

\* One value of the full cross-correlation: sum over l of a[l] * b[l - lag]
RECURSIVE CorrTerm(_, _, _, _)
CorrTerm(a, b, lag, l) ==
    IF l = 0 THEN 0
    ELSE (IF l - lag >= 1 /\ l - lag <= Len(b) THEN a[l] * b[l - lag] ELSE 0)
         + CorrTerm(a, b, lag, l - 1)

\* signal.correlate(a, b), mode 'full'
Correlate(a, b) ==
    Array([k \in 1..(Len(a) + Len(b) - 1) |->
              CorrTerm(a, b, (k - 1) - (Len(b) - 1), Len(a))])

\* max((val, idx) for (idx, val) in enumerate(s)): the 0-based idx of the
\* largest pair, pairs being ordered by val first and by idx second.
IndexOfMaxFirst(s) ==
    (CHOOSE i \in 1..Len(s) :
        \A j \in 1..Len(s) : s[j] < s[i] \/ (s[j] = s[i] /\ j >= i)) - 1
IndexOfMax(s) ==
    (CHOOSE i \in 1..Len(s) :
        \A j \in 1..Len(s) : s[j] < s[i] \/ (s[j] = s[i] /\ j <= i)) - 1

\* (x2 - x1) / (lagDiff / fs) in floating point: a zero timeDiff is no error,
\* the quotient is inf, -inf or nan.
Velocity(dx, lagDiff, rate) ==
    IF lagDiff = 0
    THEN [kind |-> IF dx > 0 THEN "inf" ELSE IF dx < 0 THEN "-inf" ELSE "nan",
          num |-> 0, den |-> 0]
    ELSE [kind |-> "finite",
          num |-> (IF lagDiff < 0 THEN -1 ELSE 1) * dx * rate,
          den |-> Abs(lagDiff)]

\* The body of compute_timedomain on a calculator with the given fields.
TimeDomain(d1, d2, x1, x2, rate) ==
    LET RMP_data_f_1 == Fluctuation(d1)
        RMP_data_f_2 == Fluctuation(d2)
        Rxy == Correlate(RMP_data_f_1, RMP_data_f_2)
        lags == CorrelationLags(Len(RMP_data_f_1), Len(RMP_data_f_2))
        ind_Rxy_max == IndexOfMax(Array([k \in 1..Len(Rxy) |-> Abs(Rxy[k])]))
        lagDiff == lags[ind_Rxy_max + 1]
    IN  [op |-> "compute_timedomain", status |-> "returned",
         lagDiff |-> lagDiff,
         Ucv |-> Velocity(x2 - x1, lagDiff, rate),
         result_plot |-> [Rxy |-> Rxy, lags |-> lags]]

----------------------------------------------------------------------------
(* Frequency domain: signal.csd / signal.welch (Welch's method)            *)

Min(a, b) == IF a < b THEN a ELSE b

\* get_window('hann', n), times 4: 0.5 - 0.5*cos(2*pi*i/n) for i = 0..n-1,
\* and ones(n) for n <= 1.
Hann(n) ==
    CASE n = 1 -> <<4>>
      [] n = 2 -> <<0, 4>>
      [] n = 3 -> <<0, 3, 3>>
      [] n = 4 -> <<0, 2, 4, 2>>

\* The segments of x: x[i*step : i*step + nperseg] for i = 0..K-1, with
\* step = nperseg - noverlap and K = (len(x) - noverlap) // step.
Segments(x, nperseg, noverlap) ==
    LET step == nperseg - noverlap
        K == (Len(x) - noverlap) \div step
    IN  Array([i \in 1..K |-> Array([n \in 1..nperseg |-> x[(i - 1) * step + n]])])

\* detrend='constant', then the window.
Windowed(seg) ==
    LET win == Hann(Len(seg))
        detrended == Fluctuation(seg)
    IN  Array([n \in 1..Len(seg) |-> win[n] * detrended[n]])

\* exp(-2*pi*i*j/nfft) for nfft in {1, 2, 4}: its real and imaginary part.
TwiddleRe(nfft, j) ==
    LET q == (j * (4 \div nfft)) % 4
    IN  IF q = 0 THEN 1 ELSE IF q = 2 THEN -1 ELSE 0
TwiddleIm(nfft, j) ==
    LET q == (j * (4 \div nfft)) % 4
    IN  IF q = 1 THEN -1 ELSE IF q = 3 THEN 1 ELSE 0

RECURSIVE RfftRe(_, _, _, _)
RfftRe(seg, nfft, k, n) ==
    IF n = 0 THEN 0
    ELSE seg[n] * TwiddleRe(nfft, k * (n - 1)) + RfftRe(seg, nfft, k, n - 1)

RECURSIVE RfftIm(_, _, _, _)
RfftIm(seg, nfft, k, n) ==
    IF n = 0 THEN 0
    ELSE seg[n] * TwiddleIm(nfft, k * (n - 1)) + RfftIm(seg, nfft, k, n - 1)

\* rfft(seg, n=nfft): bins 0..nfft//2 of the DFT of seg zero-padded to nfft.
Rfft(seg, nfft) ==
    Array([k \in 1..((nfft \div 2) + 1) |->
              <<RfftRe(seg, nfft, k - 1, Len(seg)), RfftIm(seg, nfft, k - 1, Len(seg))>>])

\* conj(u) * v
ConjMul(u, v) == <<u[1] * v[1] + u[2] * v[2], u[1] * v[2] - u[2] * v[1]>>

RECURSIVE SumBin(_, _, _, _)
SumBin(X, Y, k, i) ==
    IF i = 0 THEN <<0, 0>>
    ELSE LET c == ConjMul(X[i][k], Y[i][k])
             r == SumBin(X, Y, k, i - 1)
         IN  <<r[1] + c[1], r[2] + c[2]>>

\* The windowed transform of every segment of x: what csd and welch compute
\* of a signal before they multiply and average.
SegmentSpectra(x, nperseg, noverlap, nfft) ==
    LET segs == Segments(x, nperseg, noverlap)
    IN  Array([i \in 1..Len(segs) |-> Rfft(Windowed(segs[i]), nfft)])

\* signal.csd(x, y, fs, nperseg, noverlap, window='hann', nfft) from the
\* segment spectra X of x and Y of y: per bin, the sum over the segments of
\* conj(X) * Y.
Csd(X, Y) == Array([k \in 1..Len(X[1]) |-> SumBin(X, Y, k, Len(X))])

\* signal.welch(x, ...) from the segment spectra X of x: csd(x, x).real
Welch(X) ==
    LET Pxx == Csd(X, X)
    IN  Array([k \in 1..Len(Pxx) |-> Pxx[k][1]])

\* rfftfreq(nfft, 1/fs): k*fs/nfft
Rfftfreq(nfft, rate) == Array([k \in 1..((nfft \div 2) + 1) |-> <<(k - 1) * rate, nfft>>])

\* abs(Pxy)**2 / (Pxx*Pyy); 0/0 is nan, kept as <<0, 0>>
Coherence(Pxy, Pxx, Pyy) ==
    Array([k \in 1..Len(Pxy) |->
              <<Pxy[k][1] * Pxy[k][1] + Pxy[k][2] * Pxy[k][2], Pxx[k] * Pyy[k]>>])

\* val >= 0.1 (False for nan)
AtLeastThreshold(val) == val[2] > 0 /\ 10 * val[1] >= val[2]

RECURSIVE IndicesWhere(_, _)
IndicesWhere(g, n) ==
    IF n = 0 THEN << >>
    ELSE IF AtLeastThreshold(g[n]) THEN Append(IndicesWhere(g, n - 1), n - 1)
         ELSE IndicesWhere(g, n - 1)

\* [ind for ind, val in enumerate(gamma2) if val >= 0.1]
IndTmp(gamma2) == IndicesWhere(gamma2, Len(gamma2))

\* ind_tmp[-1]: the last index that meets the threshold.  (FirstDrop: the
\* first index that does not.)
FirstDrop(gamma2, ind_tmp) ==
    IF \E i \in 1..Len(gamma2) : ~AtLeastThreshold(gamma2[i])
    THEN (CHOOSE i \in 1..Len(gamma2) :
             /\ ~AtLeastThreshold(gamma2[i])
             /\ \A j \in 1..(i - 1) : AtLeastThreshold(gamma2[j])) - 1
    ELSE Len(gamma2) - 1
IndFmaxFit(gamma2, ind_tmp) == ind_tmp[Len(ind_tmp)]

\* s[lo:hi] for 0 <= lo, 0 <= hi
Slice(s, lo, hi) == SubSeq(s, lo + 1, Min(hi, Len(s)))

\* np.polyfit(x, y, 1) raises TypeError("expected non-empty vector for x") on
\* an empty x; on a single point it warns (RankWarning) and returns.
PolyfitRaisesNever(x) == FALSE
PolyfitRaises(x) == Len(x) = 0

\* The body of compute_freqdomain on a calculator with the given fields.
FreqDomain(d1, d2, x1, x2, rate, N_window, N_overlap) ==
    LET args == [N_window |-> N_window, N_overlap |-> N_overlap]
        Raised(e) == [op |-> "compute_freqdomain", status |-> "raised",
                      args |-> args, error |-> e]
        \* scipy: nperseg larger than the input is reduced to its length
        nperseg == Min(N_window, Len(d1))
    IN  IF N_overlap >= nperseg
        THEN Raised("ValueError")   \* noverlap must be less than nperseg
        ELSE
        LET f_Pxy == Rfftfreq(N_window, rate)
            X == SegmentSpectra(d1, nperseg, N_overlap, N_window)
            Y == SegmentSpectra(d2, nperseg, N_overlap, N_window)
            Pxy == Csd(X, Y)
            Pxx == Welch(X)
            Pyy == Welch(Y)
            gamma2 == Coherence(Pxy, Pxx, Pyy)
            ind_tmp == IndTmp(gamma2)
        IN  IF Len(ind_tmp) = 0
            THEN Raised("IndexError")   \* ind_tmp[-1] of an empty list
            ELSE
            LET ind_fmax_fit == IndFmaxFit(gamma2, ind_tmp)
                P == [x |-> Slice(f_Pxy, 1, ind_fmax_fit),
                      Pxy |-> Slice(Pxy, 1, ind_fmax_fit)]
            IN  IF PolyfitRaises(P.x)
                THEN Raised("TypeError")
                ELSE [op |-> "compute_freqdomain", status |-> "returned",
                      args |-> args,
                      Ucv |-> [dx |-> x2 - x1, P |-> P],
                      result_plot |-> [gamma2 |-> gamma2,
                                       ind_fmax_fit |-> ind_fmax_fit,
                                       f_Pxy |-> f_Pxy, P |-> P, Pxy |-> Pxy]]

----------------------------------------------------------------------------
(* The time-domain plot                                                    *)

RECURSIVE MaxTo(_, _)
MaxTo(s, n) == IF n = 1 THEN s[1] ELSE LET m == MaxTo(s, n - 1) IN IF s[n] > m THEN s[n] ELSE m

\* max(s)
MaxOf(s) == MaxTo(s, Len(s))

\* lags[Rxy == max(Rxy)]: the lags axvline draws as 'Max Cross-correlation'
MarkedLags(result_plot) ==
    {result_plot.lags[k] : k \in {j \in 1..Len(result_plot.Rxy) :
                                     result_plot.Rxy[j] = MaxOf(result_plot.Rxy)}}

----------------------------------------------------------------------------
(* The calculator                                                          *)

NoCall == [op |-> "none", status |-> "none"]
NoFigure == [op |-> "none"]

\* __init__ stores its five arguments: two signals of one length up to
\* maxlen, two positions and the sampling rate.
Construct(maxlen, positions, rates) ==
    \E n \in 1..maxlen :
      \E d1 \in Signals(n), d2 \in Signals(n), x1 \in positions[1], x2 \in positions[2],
         rate \in rates :
        /\ RMP_data_1 = d1
        /\ RMP_data_2 = d2
        /\ RMP_x1 = x1
        /\ RMP_x2 = x2
        /\ fs = rate
        /\ ctor = [RMP_data_1 |-> d1, RMP_data_2 |-> d2, RMP_x1 |-> x1,
                   RMP_x2 |-> x2, fs |-> rate]
        /\ ret = NoCall
        /\ figure = NoFigure

compute_freqdomain(N_window, N_overlap) ==
    /\ ret' = FreqDomain(RMP_data_1, RMP_data_2, RMP_x1, RMP_x2, fs, N_window, N_overlap)
    /\ UNCHANGED <<fields, ctor, figure>>

compute_timedomain_inplace ==
    /\ ret' = TimeDomain(RMP_data_1, RMP_data_2, RMP_x1, RMP_x2, fs)
    /\ RMP_data_1' = Fluctuation(RMP_data_1)
    /\ RMP_data_2' = Fluctuation(RMP_data_2)
    /\ UNCHANGED <<RMP_x1, RMP_x2, fs, ctor, figure>>
compute_timedomain ==
    /\ ret' = TimeDomain(RMP_data_1, RMP_data_2, RMP_x1, RMP_x2, fs)
    /\ UNCHANGED <<fields, ctor, figure>>

\* plot_timedomain(result_plot) on the payload of the last compute_timedomain.
plot_timedomain ==
    /\ ret.op = "compute_timedomain"
    /\ ret.status = "returned"
    /\ figure' = [op |-> "plot_timedomain", result_plot |-> ret.result_plot,
                  marked |-> MarkedLags(ret.result_plot)]
    /\ UNCHANGED <<fields, ctor, ret>>

Next ==
    \/ \E N_window \in WindowLengths : \E N_overlap \in Overlaps(N_window) :
          compute_freqdomain(N_window, N_overlap)
    \/ compute_timedomain
    \/ plot_timedomain

Init == Construct(MaxLen, <<Positions, Positions>>, Rates)

Spec == Init /\ [][Next]_vars

\* The first call of compute_freqdomain on a fresh calculator, on longer
\* signals.  The spectra and the fit read neither position nor the rate, so
\* one geometry and one rate are kept.
InitFreq == Construct(MaxLenFreq, <<{0}, {1}>>, {2})

NextFreq ==
    \E N_window \in WindowLengths : \E N_overlap \in Overlaps(N_window) :
        ret = NoCall /\ compute_freqdomain(N_window, N_overlap)

SpecFreq == InitFreq /\ [][NextFreq]_vars

----------------------------------------------------------------------------
(* Properties                                                              *)

TimeReturned == ret.op = "compute_timedomain" /\ ret.status = "returned"
FreqReturned == ret.op = "compute_freqdomain" /\ ret.status = "returned"

\* The lags at which |Rxy| is largest.
PeakLags(result_plot) ==
    {result_plot.lags[k] : k \in {j \in 1..Len(result_plot.Rxy) :
        \A i \in 1..Len(result_plot.Rxy) :
            Abs(result_plot.Rxy[i]) <= Abs(result_plot.Rxy[j])}}

\* b is a delayed by d samples: b[n] = a[n - d], and nothing before.
IsDelayed(a, b, d) ==
    /\ \A n \in 1..Len(b) : b[n] = IF n > d THEN a[n - d] ELSE 0
    /\ \E n \in 1..(Len(a) - d) : a[n] # 0

\* C1: a compute_timedomain call whose peak lag is 0 ends in an error and
\* returns no velocity.
C1_ZeroLagRaises ==
    (ret.op = "compute_timedomain" /\ ret.lagDiff = 0) => ret.status = "raised"

\* C2: with x2 > x1 and RMP_data_2 equal to RMP_data_1 delayed by d samples
\* (1 <= d < N, one peak of |Rxy|, d samples away from lag 0),
\* compute_timedomain returns the positive velocity (x2 - x1) * fs / d.
C2_DelayGivesPositiveVelocity ==
    \A d \in 1..(Len(RMP_data_1) - 1) :
        ( /\ ret.op = "compute_timedomain"
          /\ RMP_x2 > RMP_x1
          /\ IsDelayed(RMP_data_1, RMP_data_2, d)
          /\ PeakLags(ret.result_plot) \in {{d}, {-d}} )
        => /\ ret.status = "returned"
           /\ ret.Ucv.kind = "finite"
           /\ ret.Ucv.num * d = (RMP_x2 - RMP_x1) * fs * ret.Ucv.den

\* C3 as stated: among the lags that share the largest |Rxy|, the one used is
\* the most negative (the earliest index).
C3_TieTakesEarliest ==
    TimeReturned => \A l \in PeakLags(ret.result_plot) : ret.lagDiff <= l

\* C3 as amended: among the lags that share the largest |Rxy|, the one used is
\* the most positive (the latest index).
C3_TieTakesLatest ==
    TimeReturned =>
        /\ ret.lagDiff \in PeakLags(ret.result_plot)
        /\ \A l \in PeakLags(ret.result_plot) : l <= ret.lagDiff

\* A compute_timedomain result with several lags sharing a nonzero largest |Rxy|.
C3_Witness ==
    /\ TimeReturned
    /\ Cardinality(PeakLags(ret.result_plot)) > 1
    /\ \E k \in 1..Len(ret.result_plot.Rxy) : ret.result_plot.Rxy[k] # 0

\* C4: with equal sensor positions neither estimator returns a velocity.
C4_EqualPositionsRaise ==
    (RMP_x1 = RMP_x2 /\ ret.op \in {"compute_timedomain", "compute_freqdomain"})
        => ret.status = "raised"

\* C5: compute_freqdomain returns only after a fit on at least two bins, that
\* is only when the cutoff index is at least 3.
C5_ReturnsOnlyWithTwoFitBins ==
    FreqReturned => ret.result_plot.ind_fmax_fit >= 3

\* The lag compute_timedomain selects with the two signals exchanged.
SwappedLag == TimeDomain(RMP_data_2, RMP_data_1, RMP_x1, RMP_x2, fs).lagDiff

C7_CutoffInRange ==
    FreqReturned =>
        /\ ret.result_plot.ind_fmax_fit >= 1
        /\ ret.result_plot.ind_fmax_fit <= Len(ret.result_plot.f_Pxy) - 1

\* A returned spectral estimate whose bin 0 meets the threshold.
C7_Witness ==
    /\ FreqReturned
    /\ ret.result_plot.gamma2[1][2] > 0
    /\ 10 * ret.result_plot.gamma2[1][1] >= ret.result_plot.gamma2[1][2]

\* C8: after any sequence of calls the five fields are those handed to the
\* constructor, and the last call's result is the one it gives as the first
\* call on a fresh calculator with the same inputs.
C8_CallsIndependent ==
    /\ fields = <<ctor.RMP_data_1, ctor.RMP_data_2, ctor.RMP_x1, ctor.RMP_x2, ctor.fs>>
    /\ ret.op = "compute_timedomain" =>
           ret = TimeDomain(ctor.RMP_data_1, ctor.RMP_data_2, ctor.RMP_x1,
                            ctor.RMP_x2, ctor.fs)
    /\ ret.op = "compute_freqdomain" =>
           ret = FreqDomain(ctor.RMP_data_1, ctor.RMP_data_2, ctor.RMP_x1,
                            ctor.RMP_x2, ctor.fs,
                            ret.args.N_window, ret.args.N_overlap)

\* A failed compute_freqdomain call made after compute_timedomain had returned
\* and its result had been plotted.
C8_Witness ==
    /\ figure.op = "plot_timedomain"
    /\ ret.op = "compute_freqdomain"
    /\ ret.status = "raised"

C10_PlotMarksUsedLag ==
    (figure.op = "plot_timedomain" /\ TimeReturned) => figure.marked = {ret.lagDiff}

============================================================================
